---- MODULE Spec2Model ----
(***************************************************************************)
(* Model of teller_mvp/api/main.py: the /api/fetch aggregation handler     *)
(* (fetch_all) and the upstream client factory (_make_client).             *)
(*                                                                         *)
(* Text (tokens, response bodies, error details) is a sequence of          *)
(* one-character strings, so that "contains" is a real substring test.     *)
(* JSON values are records tagged with their kind in field k.              *)
(***************************************************************************)
EXTENDS Integers, Sequences, FiniteSets, TLC

\* ---------------------------------------------------------------- bounds
\* longest upstream account listing that is enumerated
MaxAccounts == 2

\* ------------------------------------------------------------- requests
\* identities of inbound /api/fetch requests (each runs fetch_all once)
Reqs == {"r1", "r2"}
\* the requests that arrive under Spec
SingleReq == {"r1"}

\* ------------------------------------------------------- JSON-ish values
None == [k |-> "null", v |-> ""]
Absent == [k |-> "absent", v |-> ""]
Str(s) == [k |-> "str", v |-> s]

\* dict.get(key): a missing key reads as None
Get(field) == IF field.k = "absent" THEN None ELSE field

\* variant: every text is truthy, the empty one included
TruthyStrAnyText(x) == x.k = "str"

\* Python truthiness of an optional string field (None and "" are falsy)
TruthyStr(x) == x.k = "str" /\ x.v # ""

\* ------------------------------------------------------------------ text
Concat(s, t) == s \o t

\* TRUE iff text sub occurs in text s as a contiguous run
Contains(s, sub) ==
    \E i \in 0..(Len(s) - Len(sub)) :
        \A j \in 1..Len(sub) : s[i + j] = sub[j]

DigitChar(d) == <<"0","1","2","3","4","5","6","7","8","9">>[d + 1]
\* str() of a three-digit status code
StatusText(n) == <<DigitChar(n \div 100), DigitChar((n \div 10) % 10), DigitChar(n % 10)>>

MsgMissingToken == <<"M","i","s","s","i","n","g"," ","'","a","c","c","e","s","s","T","o","k","e","n","'"," ","i","n"," ","r","e","q","u","e","s","t"," ","b","o","d","y">>
MsgUnexpectedPayload == <<"U","n","e","x","p","e","c","t","e","d"," ","a","c","c","o","u","n","t","s"," ","p","a","y","l","o","a","d">>
MsgCertRequired == <<"T","E","L","L","E","R","_","C","E","R","T","_","P","A","T","H"," ","a","n","d"," ","T","E","L","L","E","R","_","K","E","Y","_","P","A","T","H"," ","a","r","e"," ","r","e","q","u","i","r","e","d"," ","i","n"," ","d","e","v","e","l","o","p","m","e","n","t","/","p","r","o","d","u","c","t","i","o","n",".">>
MsgTellerPrefix == <<"T","e","l","l","e","r"," ","A","P","I"," ","e","r","r","o","r"," ","[">>
MsgTellerSep == <<"]",":"," ">>
MsgTimeout == <<"t","i","m","e","d"," ","o","u","t">>
MsgBadJson == <<"E","x","p","e","c","t","i","n","g"," ","v","a","l","u","e">>
MsgNoGet == <<"o","b","j","e","c","t"," ","h","a","s"," ","n","o"," ","a","t","t","r","i","b","u","t","e"," ","'","g","e","t","'">>

\* --------------------------------------------------------- input domains
\* request body field accessToken: key absent, null, "" or a token
Tok(k, v) == [k |-> k, v |-> v]
TokenValues ==
    { Tok("absent", <<>>), Tok("null", <<>>), Tok("str", <<>>),
      Tok("str", <<"z">>), Tok("str", <<"z","w">>) }

\* request body field count: key absent or an integer
Cnt(k, v) == [k |-> k, v |-> v]
CountValues == { Cnt("absent", 0), Cnt("int", 0), Cnt("int", 10) }

Payloads == [accessToken : TokenValues, count : CountValues]

\* operating modes as TELLER_ENV spells them after normalisation
EnvSandbox == <<"s","a","n","d","b","o","x">>
EnvDevelopment == <<"d","e","v","e","l","o","p","m","e","n","t">>
EnvProduction == <<"p","r","o","d","u","c","t","i","o","n">>

\* a value of an environment variable: unset (None) or a text
EnvText(s) == [k |-> "str", v |-> s]
EnvUnset == [k |-> "null", v |-> <<>>]

\* the process environment the module is imported in (lines 22-24):
\* TELLER_ENV as set by the deployer, and the two path variables
Configs ==
    { [env |-> EnvUnset,
       cert |-> Str("/c/cert.pem"), key |-> Str("/c/key.pem")],
      [env |-> EnvText(<<"D","e","v","e","l","o","p","m","e","n","t"," ">>),
       cert |-> Str("/c/cert.pem"), key |-> Str("/c/key.pem")],
      [env |-> EnvText(<<"s","t","a","g","i","n","g">>),
       cert |-> Str("/c/cert.pem"), key |-> Str("/c/key.pem")],
      [env |-> EnvText(EnvProduction),
       cert |-> Str("/c/cert.pem"), key |-> None],
      [env |-> EnvText(<<" ","P","R","O","D","U","C","T","I","O","N">>),
       cert |-> None, key |-> Str("/c/key.pem")] }

\* str.lower() on the letters that occur
UpperLetters == <<"A","B","C","D","E","F","G","H","I","J","K","L","M","N","O","P","Q","R","S","T","U","V","W","X","Y","Z">>
LowerLetters == <<"a","b","c","d","e","f","g","h","i","j","k","l","m","n","o","p","q","r","s","t","u","v","w","x","y","z">>
LowerChar(c) ==
    IF \E i \in DOMAIN UpperLetters : UpperLetters[i] = c
    THEN LowerLetters[CHOOSE i \in DOMAIN UpperLetters : UpperLetters[i] = c]
    ELSE c
LowerText(s) == [i \in DOMAIN s |-> LowerChar(s[i])]

\* str.strip(): leading and trailing blanks removed
RECURSIVE StripLeft(_)
StripLeft(s) == IF Len(s) > 0 /\ Head(s) = " " THEN StripLeft(Tail(s)) ELSE s
RECURSIVE StripRight(_)
StripRight(s) ==
    IF Len(s) > 0 /\ s[Len(s)] = " " THEN StripRight(SubSeq(s, 1, Len(s) - 1)) ELSE s
StripText(s) == StripRight(StripLeft(s))

\* variant: the mode is compared as the deployer typed it
NormalizeEnvVerbatim(raw) == IF raw.k = "str" /\ raw.v # <<>> THEN raw.v ELSE EnvSandbox

\* `(os.getenv("TELLER_ENV") or "sandbox").lower().strip()` (line 22)
NormalizeEnv(raw) ==
    StripText(LowerText(IF raw.k = "str" /\ raw.v # <<>> THEN raw.v ELSE EnvSandbox))

\* one entry of the upstream account listing
Entry(shape, id, name, inst, instName) ==
    [shape |-> shape, id |-> id, name |-> name,
     institution |-> [k |-> inst, name |-> instName],
     last_four |-> IF shape = "object" /\ id.k = "str" THEN Str("1234") ELSE Absent,
     type |-> IF shape = "object" THEN Str("depository") ELSE Absent]

Entries ==
    { Entry("object", Str("a1"), Str("Checking"), "object", Str("Chase")),
      Entry("object", Str("a2"), Absent,          "null",   Absent),
      Entry("object", Absent,    Str("Orphan"),   "absent", Absent),
      Entry("object", Str(""),   Absent,          "object", Absent),
      Entry("other",  Absent,    Absent,          "absent", Absent) }

RECURSIVE SeqsUpTo(_, _)
SeqsUpTo(S, n) ==
    IF n = 0 THEN { <<>> }
    ELSE LET shorter == SeqsUpTo(S, n - 1)
         IN  shorter \cup { Append(q, e) : q \in { x \in shorter : Len(x) = n - 1 }, e \in S }

Listings == SeqsUpTo(Entries, MaxAccounts)

Statuses == {200, 302, 404, 500}
\* response body texts of upstream error responses (the last echoes a token)
BodyTexts == { <<"n","o">>, <<"z","w">> }

\* bodies of a 2xx /accounts response ("invalid": not JSON)
NoEntries == <<>>
AccountsBodies ==
    { [k |-> "list", v |-> l] : l \in Listings }
      \cup { [k |-> kk, v |-> NoEntries] : kk \in {"object", "null", "invalid"} }

\* bodies of a 2xx /accounts/{id}/balances response
BalanceBodies ==
    { [k |-> "object",  available |-> Str("10.00"), ledger |-> Absent],
      [k |-> "null",    available |-> Absent,       ledger |-> Absent],
      [k |-> "list",    available |-> Absent,       ledger |-> Absent],
      [k |-> "invalid", available |-> Absent,       ledger |-> Absent] }

\* bodies of a 2xx /accounts/{id}/transactions response
NoTxns == <<>>
TransactionsBodies ==
    { [k |-> "list", v |-> <<"x2", "x1">>],
      [k |-> "object", v |-> NoTxns], [k |-> "null", v |-> NoTxns],
      [k |-> "invalid", v |-> NoTxns] }

\* what one client.get(...) can produce: a transport exception, or an HTTP
\* response with a status, a body text and (for 2xx) a parsed body
\* (unread is the body placeholder of a response whose body is never parsed)
NetErr(unread) == { [kind |-> "neterr", status |-> 0, text |-> MsgTimeout, body |-> unread] }
HttpErr(unread) ==
    { [kind |-> "http", status |-> s, text |-> t, body |-> unread] :
        s \in Statuses \ {200}, t \in BodyTexts }
HttpOk(B) == { [kind |-> "http", status |-> 200, text |-> <<>>, body |-> b] : b \in B }
Outcomes(B, unread) == NetErr(unread) \cup HttpErr(unread) \cup HttpOk(B)

AccountsOutcomes == Outcomes(AccountsBodies, [k |-> "invalid", v |-> NoEntries])
BalanceOutcomes ==
    Outcomes(BalanceBodies, [k |-> "invalid", available |-> Absent, ledger |-> Absent])
TransactionsOutcomes == Outcomes(TransactionsBodies, [k |-> "invalid", v |-> NoTxns])

\* ----------------------------------------------------------------- state
VARIABLES
    environ,           \* process-wide: TELLER_ENV as found in os.environ
    TELLER_ENV,        \* process-wide: normalised operating mode (line 22)
    TELLER_CERT_PATH,  \* process-wide: certificate path or None (line 23)
    TELLER_KEY_PATH,   \* process-wide: key path or None (line 24)
    pc,                \* per request: position of fetch_all
    payload,           \* per request: the request body
    access_token,      \* per request: local access_token (line 94)
    max_count,         \* per request: local max_count (line 98)
    client,            \* per request: the httpx client of the with block
    accounts,          \* per request: local accounts (line 104)
    idx,               \* per request: position of the for loop in accounts
    balance,           \* per request: local balance (line 118)
    results,           \* per request: local results (line 108)
    pending,           \* per request: exception or return value leaving the try
    response,          \* per request: what the caller receives
    calls              \* per request: log of the upstream calls issued

vars == <<environ, TELLER_ENV, TELLER_CERT_PATH, TELLER_KEY_PATH, pc, payload,
          access_token, max_count, client, accounts, idx, balance, results,
          pending, response, calls>>

config == <<environ, TELLER_ENV, TELLER_CERT_PATH, TELLER_KEY_PATH>>

TELLER_API_BASE == <<"h","t","t","p","s",":","/","/","a","p","i",".","t","e","l","l","e","r",".","i","o">>
DefaultCount == 50
ClientTimeout == 30

NoPayload == [accessToken |-> Tok("absent", <<>>), count |-> Cnt("absent", 0)]
NoClient == [state |-> "none", auth |-> <<>>, cert |-> FALSE, timeout |-> 0, base_url |-> <<>>]
NoBalance == [k |-> "null", available |-> Absent, ledger |-> Absent]
NoPending == [kind |-> "none", status |-> 0, text |-> <<>>]
NoResponse == [kind |-> "none", status |-> 0, detail |-> <<>>, accounts |-> <<>>]
NoCalls == <<>>

InitWith(C) ==
    /\ \E c \in C :
         /\ environ = c.env
         /\ TELLER_ENV = NormalizeEnv(c.env)
         /\ TELLER_CERT_PATH = c.cert
         /\ TELLER_KEY_PATH = c.key
    /\ pc = [r \in Reqs |-> "idle"]
    /\ payload = [r \in Reqs |-> NoPayload]
    /\ access_token = [r \in Reqs |-> Tok("null", <<>>)]
    /\ max_count = [r \in Reqs |-> 0]
    /\ client = [r \in Reqs |-> NoClient]
    /\ accounts = [r \in Reqs |-> NoEntries]
    /\ idx = [r \in Reqs |-> 0]
    /\ balance = [r \in Reqs |-> NoBalance]
    /\ results = [r \in Reqs |-> <<>>]
    /\ pending = [r \in Reqs |-> NoPending]
    /\ response = [r \in Reqs |-> NoResponse]
    /\ calls = [r \in Reqs |-> NoCalls]

\* the deployments the request handling is explored in: the default
\* (TELLER_ENV unset) and production without a key path
DefaultConfigs == { c \in Configs : c.env \in {EnvUnset, EnvText(EnvProduction)} }

Init == InitWith(DefaultConfigs)

\* ------------------------------------------------------ pure code pieces
\* variant: only None is treated as missing, "" is let through
TruthyTokenOnlyNone(t) == t.k = "str"

\* `not access_token` is false: the token is a non-empty string (line 95)
TruthyToken(t) == t.k = "str" /\ t.v # <<>>

\* `(payload or {}).get("count") or 50` (line 98)
MaxCountOf(p) == IF p.count.k = "int" /\ p.count.v # 0 THEN p.count.v ELSE DefaultCount

\* exceptions and return values leaving the try block
Raise(kind, status, text) == [kind |-> kind, status |-> status, text |-> text]
Return == [kind |-> "return", status |-> 0, text |-> <<>>]

\* variant: missing paths are not checked when the client is built
_make_clientUnchecked(token, env, cert, key) ==
    [state |-> "open", auth |-> token,
     cert |-> env \in {EnvDevelopment, EnvProduction} /\ cert.k = "str" /\ key.k = "str",
     timeout |-> ClientTimeout, base_url |-> TELLER_API_BASE]

\* _make_client (lines 29-48): the client, or state "failed" for RuntimeError
_make_client(token, env, cert, key) ==
    IF env \in {EnvDevelopment, EnvProduction}
    THEN IF ~TruthyStr(cert) \/ ~TruthyStr(key)
         THEN [state |-> "failed", auth |-> <<>>, cert |-> FALSE, timeout |-> 0, base_url |-> <<>>]
         ELSE [state |-> "open", auth |-> token, cert |-> TRUE,
               timeout |-> ClientTimeout, base_url |-> TELLER_API_BASE]
    ELSE [state |-> "open", auth |-> token, cert |-> FALSE,
          timeout |-> ClientTimeout, base_url |-> TELLER_API_BASE]

\* httpx Response.is_success
is_success(status) == status >= 200 /\ status <= 299

\* client.get(...), raise_for_status() and .json() of one upstream call:
\* the exception it raises, or NoPending when the parsed body is available
CallRaises(o) ==
    IF o.kind = "neterr" THEN Raise("Exception", 0, o.text)
    ELSE IF ~is_success(o.status) THEN Raise("HTTPStatusError", o.status, o.text)
    ELSE IF o.body.k = "invalid" THEN Raise("Exception", 0, MsgBadJson)
    ELSE NoPending

\* str(e) of HTTPException(status_code=..., detail=...): "<status>: <detail>"
\* where the class defines __str__, the empty text where it does not
StrOfHTTPException(status, detail) ==
    { <<>>, Concat(StatusText(status), Concat(<<":", " ">>, detail)) }

\* one record of the call log
Call(op, pos, id, count, cl, o) ==
    [op |-> op, pos |-> pos, id |-> id, count |-> count, auth |-> cl.auth,
     cert |-> cl.cert, clientState |-> cl.state, kind |-> o.kind,
     status |-> o.status, text |-> o.text, bodyKind |-> o.body.k, body |-> o.body]

\* `(acct.get("institution") or {}).get("name")` (line 130)
InstitutionName(acct) ==
    IF acct.institution.k = "object" THEN Get(acct.institution.name) ELSE None

\* variant: `acct.get("institution").get("name")`, without the `or {}`
InstitutionRaisesWithoutDefault(acct) == acct.institution.k # "object"

\* line 130 raises AttributeError when the institution is a truthy value that
\* is not a dict
InstitutionRaises(acct) == acct.institution.k \notin {"absent", "null", "object"}

\* `(balance or {}).get(...)` (lines 135-136) raises likewise
BalanceRaises(bal) == bal.k \notin {"null", "object"}

\* the dict literal of lines 126-139 raises AttributeError when .get is
\* looked up on a truthy value that is not a dict
AssembleRaises(acct, bal) == InstitutionRaises(acct) \/ BalanceRaises(bal)

\* variant: the parsed body is passed on whatever its shape
NormalizeTransactionsPassThrough(body) == body

\* `transactions if isinstance(transactions, list) else []` (line 138)
NormalizeTransactions(body) == IF body.k = "list" THEN body ELSE [k |-> "list", v |-> NoTxns]

\* variant: the new result is put in front
PrependResult(res, item) == <<item>> \o res

\* results.append(...) (line 126)
AppendResult(res, item) == Append(res, item)

\* the AggregatedAccountResult appended at lines 126-139
AccountResult(acct, bal, txnBody) ==
    [account |-> [id |-> acct.id.v,
                  name |-> Get(acct.name),
                  institution |-> InstitutionName(acct),
                  last_four |-> Get(acct.last_four),
                  type |-> Get(acct.type)],
     balance |-> [available |-> IF bal.k = "object" THEN Get(bal.available) ELSE None,
                  ledger |-> IF bal.k = "object" THEN Get(bal.ledger) ELSE None],
     transactions |-> NormalizeTransactions(txnBody)]

\* HTTPException(status_code, detail) as seen by the caller
ErrorResponse(status, detail) ==
    [kind |-> "error", status |-> status, detail |-> detail, accounts |-> <<>>]

\* detail of the first except clause (line 145)
TellerErrorDetail(status, text) ==
    Concat(MsgTellerPrefix, Concat(StatusText(status), Concat(MsgTellerSep, text)))

\* variant: an upstream failure answers with what was assembled so far
except_clausesPartial(p, res) ==
    IF p.kind \in {"return", "HTTPStatusError"}
    THEN [kind |-> "ok", status |-> 200, detail |-> <<>>, accounts |-> res]
    ELSE ErrorResponse(500, p.text)

\* variant: every exception, upstream status errors included, becomes a 500
except_clausesAll500(p, res) ==
    IF p.kind = "return"
    THEN [kind |-> "ok", status |-> 200, detail |-> <<>>, accounts |-> res]
    ELSE ErrorResponse(500, p.text)

\* variant: an exception that is no upstream status error is dropped and the
\* results assembled so far are returned
except_clausesSwallow(p, res) ==
    IF p.kind = "HTTPStatusError"
    THEN ErrorResponse(p.status, TellerErrorDetail(p.status, p.text))
    ELSE [kind |-> "ok", status |-> 200, detail |-> <<>>, accounts |-> res]

\* what leaves fetch_all once the try statement is done (lines 141-148)
except_clauses(p, res) ==
    IF p.kind = "return"
    THEN [kind |-> "ok", status |-> 200, detail |-> <<>>, accounts |-> res]
    ELSE IF p.kind = "HTTPStatusError"
    THEN ErrorResponse(p.status, TellerErrorDetail(p.status, p.text))
    ELSE ErrorResponse(500, p.text)

\* variant: leaving the with block leaves the client open
with_exitLeak(cl) == cl

\* __exit__ of the with block (line 100): an entered client is closed
with_exit(cl) == IF cl.state = "open" THEN [cl EXCEPT !.state = "closed"] ELSE cl

\* variant: the result list is shared with the other requests
SharedResults(r) == results[CHOOSE q \in Reqs : q # r]

\* `results: List[...] = []` (line 108): each request starts its own list
NewResults(r) == <<>>

\* variant: the loop starts at the second entry
FirstPositionSecond(listing) == 2

\* `for acct in accounts` (line 109) starts at the first entry
FirstPosition(listing) == 1

\* variant: `continue` does not move on to the next entry
SkipIndexStuck(i) == i

\* `continue` (line 113): the loop moves on to the next entry
SkipIndex(i) == i + 1

\* -------------------------------------------------------------- actions
\* a POST /api/fetch arrives with a JSON object as body (line 75)
ArriveWith(r, P) ==
    /\ pc[r] = "idle"
    /\ \E p \in P : payload' = [payload EXCEPT ![r] = p]
    /\ pc' = [pc EXCEPT ![r] = "validate"]
    /\ UNCHANGED <<config, access_token, max_count, client, accounts, idx,
                   balance, results, pending, response, calls>>

Arrive(r) == ArriveWith(r, Payloads)

\* lines 94-98: read accessToken, reject a missing one, read count
Validate(r) ==
    /\ pc[r] = "validate"
    /\ LET token == Get(payload[r].accessToken)
       IN  IF ~TruthyToken(token)
           THEN /\ response' = [response EXCEPT ![r] = ErrorResponse(400, MsgMissingToken)]
                /\ pc' = [pc EXCEPT ![r] = "done"]
                /\ UNCHANGED <<access_token, max_count>>
           ELSE /\ access_token' = [access_token EXCEPT ![r] = token]
                /\ max_count' = [max_count EXCEPT ![r] = MaxCountOf(payload[r])]
                /\ pc' = [pc EXCEPT ![r] = "make_client"]
                /\ UNCHANGED response
    /\ UNCHANGED <<config, payload, client, accounts, idx, balance, results,
                   pending, calls>>

\* line 100: build the client and enter the with block
MakeClient(r) ==
    /\ pc[r] = "make_client"
    /\ LET cl == _make_client(access_token[r].v, TELLER_ENV, TELLER_CERT_PATH, TELLER_KEY_PATH)
       IN  IF cl.state = "failed"
           THEN /\ pending' = [pending EXCEPT ![r] = Raise("Exception", 0, MsgCertRequired)]
                /\ pc' = [pc EXCEPT ![r] = "finalize"]
                /\ UNCHANGED client
           ELSE /\ client' = [client EXCEPT ![r] = cl]
                /\ pc' = [pc EXCEPT ![r] = "list"]
                /\ UNCHANGED pending
    /\ UNCHANGED <<config, payload, access_token, max_count, accounts, idx,
                   balance, results, response, calls>>

\* lines 102-108: GET /accounts, check the payload, start the result list
\* (O: the answers the upstream may give to this call)
ListAccountsFrom(r, O) ==
    /\ pc[r] = "list"
    /\ \E o \in O :
         /\ calls' = [calls EXCEPT ![r] = Append(@, Call("accounts", 0, "", 0, client[r], o))]
         /\ IF CallRaises(o).kind # "none"
            THEN /\ pending' = [pending EXCEPT ![r] = CallRaises(o)]
                 /\ pc' = [pc EXCEPT ![r] = "finalize"]
                 /\ UNCHANGED <<accounts, idx, results>>
            ELSE IF o.body.k # "list"
            THEN /\ \E t \in StrOfHTTPException(502, MsgUnexpectedPayload) :
                      pending' = [pending EXCEPT ![r] = Raise("HTTPException", 502, t)]
                 /\ pc' = [pc EXCEPT ![r] = "finalize"]
                 /\ UNCHANGED <<accounts, idx, results>>
            ELSE /\ accounts' = [accounts EXCEPT ![r] = o.body.v]
                 /\ idx' = [idx EXCEPT ![r] = FirstPosition(o.body.v)]
                 /\ results' = [results EXCEPT ![r] = NewResults(r)]
                 /\ pc' = [pc EXCEPT ![r] = "loop"]
                 /\ UNCHANGED pending
    /\ UNCHANGED <<config, payload, access_token, max_count, client, balance, response>>

ListAccounts(r) == ListAccountsFrom(r, AccountsOutcomes)

\* lines 109-113 and 141: the head of the for loop
NextAccount(r) ==
    /\ pc[r] = "loop"
    /\ IF idx[r] > Len(accounts[r])
       THEN /\ pending' = [pending EXCEPT ![r] = Return]
            /\ pc' = [pc EXCEPT ![r] = "finalize"]
            /\ UNCHANGED idx
       ELSE LET acct == accounts[r][idx[r]]
            IN  IF acct.shape # "object"
                THEN /\ pending' = [pending EXCEPT ![r] = Raise("Exception", 0, MsgNoGet)]
                     /\ pc' = [pc EXCEPT ![r] = "finalize"]
                     /\ UNCHANGED idx
                ELSE IF ~TruthyStr(Get(acct.id))
                THEN /\ idx' = [idx EXCEPT ![r] = SkipIndex(@)]
                     /\ UNCHANGED <<pc, pending>>
                ELSE /\ pc' = [pc EXCEPT ![r] = "balance"]
                     /\ UNCHANGED <<idx, pending>>
    /\ UNCHANGED <<config, payload, access_token, max_count, client, accounts,
                   balance, results, response, calls>>

\* lines 116-118: GET /accounts/{id}/balances
GetBalanceFrom(r, O) ==
    /\ pc[r] = "balance"
    /\ \E o \in O :
         /\ calls' = [calls EXCEPT ![r] =
                        Append(@, Call("balances", idx[r], accounts[r][idx[r]].id.v, 0, client[r], o))]
         /\ IF CallRaises(o).kind # "none"
            THEN /\ pending' = [pending EXCEPT ![r] = CallRaises(o)]
                 /\ pc' = [pc EXCEPT ![r] = "finalize"]
                 /\ UNCHANGED balance
            ELSE /\ balance' = [balance EXCEPT ![r] = o.body]
                 /\ pc' = [pc EXCEPT ![r] = "transactions"]
                 /\ UNCHANGED pending
    /\ UNCHANGED <<config, payload, access_token, max_count, client, accounts,
                   idx, results, response>>

GetBalance(r) == GetBalanceFrom(r, BalanceOutcomes)

\* lines 121-139: GET /accounts/{id}/transactions?count=max_count, then
\* assemble and append the account's result
GetTransactionsFrom(r, O) ==
    /\ pc[r] = "transactions"
    /\ \E o \in O :
         LET acct == accounts[r][idx[r]]
         IN  /\ calls' = [calls EXCEPT ![r] =
                            Append(@, Call("transactions", idx[r], acct.id.v, max_count[r], client[r], o))]
             /\ IF CallRaises(o).kind # "none"
                THEN /\ pending' = [pending EXCEPT ![r] = CallRaises(o)]
                     /\ pc' = [pc EXCEPT ![r] = "finalize"]
                     /\ UNCHANGED <<results, idx>>
                ELSE IF AssembleRaises(acct, balance[r])
                THEN /\ pending' = [pending EXCEPT ![r] = Raise("Exception", 0, MsgNoGet)]
                     /\ pc' = [pc EXCEPT ![r] = "finalize"]
                     /\ UNCHANGED <<results, idx>>
                ELSE /\ results' = [results EXCEPT ![r] =
                                      AppendResult(@, AccountResult(acct, balance[r], o.body))]
                     /\ idx' = [idx EXCEPT ![r] = @ + 1]
                     /\ pc' = [pc EXCEPT ![r] = "loop"]
                     /\ UNCHANGED pending
    /\ UNCHANGED <<config, payload, access_token, max_count, client, accounts,
                   balance, response>>

GetTransactions(r) == GetTransactionsFrom(r, TransactionsOutcomes)

\* variant: a failed request closes its client and starts over at the listing
FinalizeRetry(r) ==
    /\ pc[r] = "finalize"
    /\ client' = [client EXCEPT ![r] = with_exit(@)]
    /\ IF pending[r].kind = "return"
       THEN /\ response' = [response EXCEPT ![r] = except_clauses(pending[r], results[r])]
            /\ pc' = [pc EXCEPT ![r] = "done"]
            /\ UNCHANGED pending
       ELSE /\ pending' = [pending EXCEPT ![r] = NoPending]
            /\ pc' = [pc EXCEPT ![r] = "make_client"]
            /\ UNCHANGED response
    /\ UNCHANGED <<config, payload, access_token, max_count, accounts, idx,
                   balance, results, calls>>

\* leaving the try statement: the with block closes the client, then the
\* return value or the except clause decides the response (lines 100, 141-148)
Finalize(r) ==
    /\ pc[r] = "finalize"
    /\ client' = [client EXCEPT ![r] = with_exit(@)]
    /\ response' = [response EXCEPT ![r] = except_clauses(pending[r], results[r])]
    /\ pc' = [pc EXCEPT ![r] = "done"]
    /\ UNCHANGED <<config, payload, access_token, max_count, accounts, idx,
                   balance, results, pending, calls>>

fetch_all(r) ==
    \/ Validate(r)
    \/ MakeClient(r)
    \/ ListAccounts(r)
    \/ NextAccount(r)
    \/ GetBalance(r)
    \/ GetTransactions(r)
    \/ Finalize(r)

Next == \E r \in SingleReq : Arrive(r) \/ fetch_all(r)

Spec == Init /\ [][Next]_vars

\* ------------------------------------------- two requests side by side
\* fetch_all is a plain `def`: the server runs each request on its own worker
\* thread, so the steps of two requests interleave at every upstream call.
\* The inputs are a selection of the ones above.
ConcConfigs == { c \in Configs : NormalizeEnv(c.env) \in {EnvDevelopment, EnvProduction} }

ConcPayloads(r) ==
    IF r = "r1"
    THEN { [accessToken |-> Tok("str", <<"z">>), count |-> Cnt("int", 10)] }
    ELSE { [accessToken |-> Tok("str", <<"z","w">>), count |-> Cnt("absent", 0)] }

ConcEntries == { e \in Entries : e.shape = "object" /\ e.name.k = "str" }

ConcAccountsOutcomes ==
    { o \in AccountsOutcomes :
        \/ o.kind = "http" /\ o.status = 404 /\ o.text = <<"n","o">>
        \/ /\ o.kind = "http" /\ o.status = 200 /\ o.body.k = "list"
           /\ \A i \in DOMAIN o.body.v : o.body.v[i] \in ConcEntries }

ConcBalanceOutcomes ==
    { o \in BalanceOutcomes :
        \/ o.kind = "http" /\ o.status = 500 /\ o.text = <<"z","w">>
        \/ o.kind = "http" /\ o.status = 200 /\ o.body.k = "object" }

ConcTransactionsOutcomes ==
    { o \in TransactionsOutcomes :
        o.kind = "http" /\ o.status = 200 /\ o.body.k \in {"list", "object"} }

InitConc == InitWith(ConcConfigs)

ArriveConc(r) == ArriveWith(r, ConcPayloads(r))
ListAccountsConc(r) == ListAccountsFrom(r, ConcAccountsOutcomes)
GetBalanceConc(r) == GetBalanceFrom(r, ConcBalanceOutcomes)
GetTransactionsConc(r) == GetTransactionsFrom(r, ConcTransactionsOutcomes)

fetch_allConc(r) ==
    \/ Validate(r)
    \/ MakeClient(r)
    \/ ListAccountsConc(r)
    \/ NextAccount(r)
    \/ GetBalanceConc(r)
    \/ GetTransactionsConc(r)
    \/ Finalize(r)

NextConc == \E r \in Reqs : ArriveConc(r) \/ fetch_allConc(r)

SpecConc == InitConc /\ [][NextConc]_vars

\* -------------------------------------------------- every deployment
\* One request in each of the environments of Configs.
InitModes == InitWith(Configs)

NextModes == \E r \in SingleReq : ArriveConc(r) \/ fetch_allConc(r)

SpecModes == InitModes /\ [][NextModes]_vars

\* ------------------------------------------------ institution shapes
\* Identified entries with every shape of the institution field: an object
\* with a name, null, key missing, and a text in place of the object.
InstEntries ==
    { Entry("object", Str("a1"), Str("Checking"), "object", Str("Chase")),
      Entry("object", Str("a2"), Absent,          "null",   Absent),
      Entry("object", Str("a3"), Str("Savings"),  "absent", Absent),
      Entry("object", Str("a4"), Absent,          "str",    Absent) }

InstPayloads == { [accessToken |-> Tok("str", <<"z">>), count |-> Cnt("absent", 0)] }

InstAccountsOutcomes ==
    HttpOk({ [k |-> "list", v |-> l] : l \in SeqsUpTo(InstEntries, MaxAccounts) })

InstBalanceOutcomes ==
    { o \in BalanceOutcomes :
        o.kind = "http" /\ o.status = 200 /\ o.body.k \in {"object", "null", "list"} }

InstTransactionsOutcomes ==
    { o \in TransactionsOutcomes :
        \/ o.kind = "neterr"
        \/ o.kind = "http" /\ o.status = 200 /\ o.body.k = "list" }

InitInst == InitWith({ c \in Configs : c.env = EnvUnset })

ArriveInst(r) == ArriveWith(r, InstPayloads)
ListAccountsInst(r) == ListAccountsFrom(r, InstAccountsOutcomes)
GetBalanceInst(r) == GetBalanceFrom(r, InstBalanceOutcomes)
GetTransactionsInst(r) == GetTransactionsFrom(r, InstTransactionsOutcomes)

fetch_allInst(r) ==
    \/ Validate(r)
    \/ MakeClient(r)
    \/ ListAccountsInst(r)
    \/ NextAccount(r)
    \/ GetBalanceInst(r)
    \/ GetTransactionsInst(r)
    \/ Finalize(r)

NextInst == \E r \in SingleReq : ArriveInst(r) \/ fetch_allInst(r)

SpecInst == InitInst /\ [][NextInst]_vars

\* ------------------------------------------- a repeatable upstream
\* Two requests against an upstream whose data does not change: a call that
\* was answered before (same endpoint, account, count and credentials, by
\* either request) gets the answer it got then; a new call gets any answer.
Answered(O, op, id, count, auth) ==
    LET prior == { c \in UNION { { calls[q][i] : i \in DOMAIN calls[q] } : q \in Reqs } :
                     c.op = op /\ c.id = id /\ c.count = count /\ c.auth = auth }
    IN  IF prior = {}
        THEN O
        ELSE { o \in O : \E c \in prior :
                 c.kind = o.kind /\ c.status = o.status /\ c.text = o.text /\ c.body = o.body }

SamePayloads ==
    { [accessToken |-> Tok("str", <<"z">>), count |-> Cnt("int", 10)],
      [accessToken |-> Tok("str", <<"z","w">>), count |-> Cnt("int", 10)] }

SameAccountsOutcomes ==
    { o \in AccountsOutcomes :
        \/ o.kind = "http" /\ o.status = 404 /\ o.text = <<"n","o">>
        \/ o.kind = "http" /\ o.status = 200 /\ o.body.k = "object"
        \/ /\ o.kind = "http" /\ o.status = 200 /\ o.body.k = "list"
           /\ \A i \in DOMAIN o.body.v : o.body.v[i] \in ConcEntries }

SameBalanceOutcomes ==
    { o \in BalanceOutcomes :
        \/ o.kind = "http" /\ o.status = 500 /\ o.text = <<"n","o">>
        \/ o.kind = "http" /\ o.status = 200 /\ o.body.k \in {"object", "list"} }

SameTransactionsOutcomes ==
    { o \in TransactionsOutcomes :
        \/ o.kind = "neterr"
        \/ o.kind = "http" /\ o.status = 200 /\ o.body.k \in {"list", "null"} }

InitSame == InitWith({ c \in Configs : c.env = EnvUnset })

ArriveSame(r) == ArriveWith(r, SamePayloads)
ListAccountsSame(r) ==
    ListAccountsFrom(r, Answered(SameAccountsOutcomes, "accounts", "", 0, client[r].auth))
GetBalanceSame(r) ==
    GetBalanceFrom(r, Answered(SameBalanceOutcomes, "balances",
                               accounts[r][idx[r]].id.v, 0, client[r].auth))
GetTransactionsSame(r) ==
    GetTransactionsFrom(r, Answered(SameTransactionsOutcomes, "transactions",
                                    accounts[r][idx[r]].id.v, max_count[r], client[r].auth))

fetch_allSame(r) ==
    \/ Validate(r)
    \/ MakeClient(r)
    \/ ListAccountsSame(r)
    \/ NextAccount(r)
    \/ GetBalanceSame(r)
    \/ GetTransactionsSame(r)
    \/ Finalize(r)

NextSame == \E r \in Reqs : ArriveSame(r) \/ fetch_allSame(r)

SpecSame == InitSame /\ [][NextSame]_vars

\* ---------------------------------------------------------- progress
\* The worker thread of a request keeps running, and every client.get comes
\* back with a response or an exception (the client's timeout, line 39): a
\* request that can take a step eventually takes one.
Fairness == \A r \in SingleReq : WF_vars(fetch_all(r))

SpecLive == Spec /\ Fairness

\* ========================================================== properties
Last(q) == q[Len(q)]

\* the request body carries no usable accessToken: key absent, null or ""
MissingToken(p) ==
    \/ p.accessToken.k \in {"absent", "null"}
    \/ p.accessToken.k = "str" /\ Len(p.accessToken.v) = 0

\* an upstream answer with a status outside 200..299
Non2xx(c) == c.kind = "http" /\ (c.status < 200 \/ c.status > 299)

\* C1: a request whose body has no accessToken (absent, "" or null) is
\* answered with status 400, builds no client and issues no upstream call.
C1_MissingTokenRejected ==
    \A r \in Reqs :
        (pc[r] # "idle" /\ MissingToken(payload[r])) =>
            /\ pc[r] \in {"validate", "done"}
            /\ calls[r] = NoCalls
            /\ client[r].state = "none"
            /\ pc[r] = "done" => (response[r].kind = "error" /\ response[r].status = 400)

C1_Witness ==
    \E r \in Reqs :
        /\ pc[r] = "done"
        /\ payload[r].accessToken = Tok("str", <<>>)
        /\ response[r].status = 400
        /\ calls[r] = NoCalls

\* C2: whichever upstream call (accounts, balances, transactions) answers
\* with a non-2xx status s and body b, the response is an error with status
\* s whose detail contains b.
C2_UpstreamStatusForwarded ==
    \A r \in Reqs :
        pc[r] = "done" =>
            \A i \in DOMAIN calls[r] :
                Non2xx(calls[r][i]) =>
                    /\ response[r].kind = "error"
                    /\ response[r].status = calls[r][i].status
                    /\ Contains(response[r].detail, calls[r][i].text)

C2_Witness ==
    \E r \in Reqs :
        /\ pc[r] = "done"
        /\ Len(calls[r]) = 2
        /\ Last(calls[r]).op = "balances"
        /\ Last(calls[r]).id = "a1"
        /\ Last(calls[r]).status = 404
        /\ response[r].status = 404
        /\ Contains(response[r].detail, <<"n","o">>)

\* C3: a 2xx /accounts answer whose parsed body is not a sequence ends the
\* request with an error of status 502, and no balances or transactions
\* call is issued.
C3_UnexpectedPayloadIs502 ==
    \A r \in Reqs :
        (/\ pc[r] = "done"
         /\ Len(calls[r]) >= 1
         /\ calls[r][1].kind = "http"
         /\ calls[r][1].status = 200
         /\ calls[r][1].bodyKind \in {"object", "null"}) =>
            /\ response[r].kind = "error"
            /\ response[r].status = 502
            /\ Len(calls[r]) = 1

\* an upstream call that failed: transport exception, non-2xx status, or a
\* 2xx body that does not parse
CallFailed(c) == c.kind = "neterr" \/ Non2xx(c) \/ c.bodyKind = "invalid"

\* the listing entries that carry a non-empty identifier
Identified(acct) == acct.shape = "object" /\ acct.id.k = "str" /\ acct.id.v # ""

\* C4: fail fast, no partial results. A failed upstream call is the last call
\* of its request; the response is then an error without accounts payload,
\* whatever was assembled before; a success response has no failed call and a
\* successful balances and transactions call for every identified entry.
C4_FailFastNoPartial ==
    \A r \in Reqs :
        /\ \A i \in DOMAIN calls[r] : CallFailed(calls[r][i]) => i = Len(calls[r])
        /\ (pc[r] = "done" /\ \E i \in DOMAIN calls[r] : CallFailed(calls[r][i])) =>
              /\ response[r].kind = "error"
              /\ response[r].accounts = <<>>
        /\ response[r].kind = "ok" =>
              /\ Len(calls[r]) >= 1
              /\ \A i \in DOMAIN calls[r] : ~CallFailed(calls[r][i])
              /\ \A j \in DOMAIN accounts[r] :
                    Identified(accounts[r][j]) =>
                        \A op \in {"balances", "transactions"} :
                            \E i \in DOMAIN calls[r] :
                                /\ calls[r][i].op = op
                                /\ calls[r][i].pos = j
                                /\ calls[r][i].id = accounts[r][j].id.v

C4_Witness ==
    \E r \in Reqs :
        /\ pc[r] = "done"
        /\ Len(results[r]) = 1
        /\ Len(calls[r]) = 5
        /\ CallFailed(Last(calls[r]))
        /\ response[r].kind = "error"
        /\ response[r].accounts = <<>>

\* a balances answer the assembly can read: an object, or null
UsableBalance(c) == c.op = "balances" => c.bodyKind \in {"object", "null"}

\* C5: when /accounts answers with a sequence and every per-account call
\* succeeds, the request succeeds and returns as many results as there are
\* entries with a non-empty identifier; entries without one cause no error.
C5_ResultCountMatchesIdentified ==
    \A r \in Reqs :
        (/\ pc[r] = "done"
         /\ Len(calls[r]) >= 1
         /\ calls[r][1].bodyKind = "list"
         /\ \A i \in DOMAIN calls[r] : ~CallFailed(calls[r][i]) /\ UsableBalance(calls[r][i])) =>
            /\ response[r].kind = "ok"
            /\ Len(response[r].accounts) =
                  Cardinality({ j \in DOMAIN accounts[r] : Identified(accounts[r][j]) })

\* the identifiers of the identified entries of a listing, in listing order
IdentifiedIds(listing) ==
    LET sel == SelectSeq(listing, Identified)
    IN  [i \in 1..Len(sel) |-> sel[i].id.v]

\* C6: in a success response the i-th result carries the identifier of the
\* i-th identified entry of the listing: listing order, nothing reordered,
\* nothing duplicated.
C6_ResultsInListingOrder ==
    \A r \in Reqs :
        response[r].kind = "ok" =>
            [i \in 1..Len(response[r].accounts) |-> response[r].accounts[i].account.id]
                = IdentifiedIds(accounts[r])

C6_Witness ==
    \E r \in Reqs :
        /\ response[r].kind = "ok"
        /\ Len(response[r].accounts) = 2
        /\ response[r].accounts[1].account.id = "a2"
        /\ response[r].accounts[2].account.id = "a1"

\* C7: a client that was acquired is closed before any response is produced,
\* on every exit path, every upstream call is made on an open client, and no
\* call is made once the client is closed.
C7_ClientReleased ==
    /\ [](\A r \in Reqs :
            /\ response[r].kind # "none" => client[r].state \in {"none", "closed"}
            /\ \A i \in DOMAIN calls[r] : calls[r][i].clientState = "open"
            /\ calls[r] # NoCalls => client[r].state \in {"open", "closed"})
    /\ [][\A r \in Reqs : client[r].state = "closed" => calls'[r] = calls[r]]_vars

C7_Witness ==
    \E r \in Reqs :
        /\ pc[r] = "done"
        /\ pending[r].kind = "Exception"
        /\ Len(calls[r]) = 3
        /\ client[r].state = "closed"
        /\ response[r].status = 500

\* C8: the access token never appears in the error text of an error response.
C8_TokenNotInErrorText ==
    \A r \in Reqs :
        (response[r].kind = "error" /\ access_token[r].k = "str" /\ Len(access_token[r].v) > 0) =>
            ~Contains(response[r].detail, access_token[r].v)

\* C9: every transactions call carries count = n when the request supplies
\* count = n, for any integer n, and 50 when it supplies none.
C9_CountCarried ==
    \A r \in Reqs :
        \A i \in DOMAIN calls[r] :
            calls[r][i].op = "transactions" =>
                calls[r][i].count =
                    (IF payload[r].count.k = "int" THEN payload[r].count.v ELSE 50)

\* position in results of the result of the listing entry at position p
ResultIndex(r, p) == Cardinality({ j \in 1..p : Identified(accounts[r][j]) })

EmptyList == [k |-> "list", v |-> <<>>]

\* the transactions call at position i of the log answered 2xx with a parsed
\* body, and its result is in place: appended at its index, with the body
\* itself when it is a sequence and the empty sequence otherwise, and the
\* loop has moved past its account
TransactionsNormalized(r, i) ==
    LET c == calls[r][i]
        n == ResultIndex(r, c.pos)
    IN  /\ idx[r] > c.pos
        /\ Len(results[r]) >= n
        /\ results[r][n].account.id = c.id
        /\ results[r][n].transactions = (IF c.bodyKind = "list" THEN c.body ELSE EmptyList)

ParsedTransactions(c) ==
    c.op = "transactions" /\ c.kind = "http" /\ c.status = 200 /\ c.bodyKind # "invalid"

\* C10 as stated: a 2xx transactions answer with a parsed body always yields
\* the account's result, with an empty sequence for a non-sequence body and
\* the body itself for a sequence; no error, the loop goes on.
C10_TransactionsAlwaysNormalized ==
    \A r \in Reqs :
        \A i \in DOMAIN calls[r] :
            ParsedTransactions(calls[r][i]) => TransactionsNormalized(r, i)

\* C10 (amended): the same, provided the account's balances answer is an
\* object or null and its institution field is an object, null or missing;
\* otherwise assembling the result raises and the request ends with 500.
C10_TransactionsNormalized ==
    \A r \in Reqs :
        \A i \in DOMAIN calls[r] :
            (/\ ParsedTransactions(calls[r][i])
             /\ calls[r][i - 1].bodyKind \in {"object", "null"}
             /\ accounts[r][calls[r][i].pos].institution.k \in {"absent", "null", "object"}) =>
                TransactionsNormalized(r, i)

C10_Witness ==
    \E r \in Reqs :
        /\ response[r].kind = "ok"
        /\ Len(calls[r]) = 5
        /\ calls[r][3].op = "transactions"
        /\ calls[r][3].bodyKind = "object"
        /\ calls[r][5].bodyKind = "list"
        /\ response[r].accounts[1].transactions = EmptyList
        /\ response[r].accounts[2].transactions.v = <<"x2", "x1">>

\* the process runs in development or production and lacks a path
ElevatedMissingPaths ==
    /\ TELLER_ENV \in {EnvDevelopment, EnvProduction}
    /\ TELLER_CERT_PATH.k # "str" \/ TELLER_KEY_PATH.k # "str"

\* C11: in development/production with the certificate or key path absent, a
\* request with a token builds no client and issues no upstream call, and is
\* answered with status 500; other requests can still arrive and be served.
C11_ConfigFailureIs500 ==
    \A r \in Reqs :
        (ElevatedMissingPaths /\ pc[r] # "idle" /\ ~MissingToken(payload[r])) =>
            /\ calls[r] = NoCalls
            /\ client[r].state = "none"
            /\ pc[r] = "done" => (response[r].kind = "error" /\ response[r].status = 500)
            /\ \A q \in Reqs \ {r} : pc[q] = "idle" => ENABLED ArriveConc(q)

C11_Witness ==
    /\ ElevatedMissingPaths
    /\ TELLER_CERT_PATH.k # "str"
    /\ \A r \in Reqs :
          /\ pc[r] = "done"
          /\ response[r].status = 500
          /\ response[r].detail = MsgCertRequired
          /\ calls[r] = NoCalls

\* the mode as the deployer set it, read off the raw environment: the letters
\* of TELLER_ENV without blanks, "sandbox" when the variable is unset or empty
ModeLetters ==
    IF environ.k = "str" /\ environ.v # <<>>
    THEN SelectSeq(environ.v, LAMBDA c : c # " ")
    ELSE EnvSandbox

SpellsMode(m) ==
    /\ Len(ModeLetters) = Len(m)
    /\ \A i \in DOMAIN m : ModeLetters[i] = m[i] \/ LowerChar(ModeLetters[i]) = m[i]

SandboxMode == SpellsMode(EnvSandbox)
ElevatedMode == SpellsMode(EnvDevelopment) \/ SpellsMode(EnvProduction)
PathsPresent == TELLER_CERT_PATH.k = "str" /\ TELLER_KEY_PATH.k = "str"

\* the client of request r, once built, and every call it made carry the
\* certificate pair (withCert) or none
CertSelected(r, withCert) ==
    /\ client[r].state = "open" => client[r].cert = withCert
    /\ \A i \in DOMAIN calls[r] : calls[r][i].cert = withCert

\* the request never gets a client and never reaches a call
RaisedAtConstruction(r) ==
    /\ client[r].state = "none"
    /\ calls[r] = NoCalls
    /\ pc[r] \in {"idle", "validate", "make_client", "finalize", "done"}

\* C12 as stated: sandbox mode attaches no certificate; every non-sandbox mode
\* presents the pair on every call, and a missing path is raised when the
\* client is built.
C12_CertFollowsNonSandbox ==
    \A r \in Reqs :
        /\ SandboxMode => CertSelected(r, FALSE)
        /\ (~SandboxMode /\ PathsPresent) => CertSelected(r, TRUE)
        /\ (~SandboxMode /\ ~PathsPresent) => RaisedAtConstruction(r)

\* C12 (amended): the modes development and production, in any letter case and
\* with surrounding blanks, present the pair on every call and raise a missing
\* path when the client is built; every other mode attaches no certificate.
C12_CertFollowsMode ==
    \A r \in Reqs :
        /\ ~ElevatedMode => CertSelected(r, FALSE)
        /\ (ElevatedMode /\ PathsPresent) => CertSelected(r, TRUE)
        /\ (ElevatedMode /\ ~PathsPresent) => RaisedAtConstruction(r)

C12_Witness ==
    /\ ElevatedMode
    /\ environ.v \notin {EnvDevelopment, EnvProduction}
    /\ PathsPresent
    /\ pc["r1"] = "done"
    /\ Len(calls["r1"]) >= 3
    /\ \A i \in DOMAIN calls["r1"] : calls["r1"][i].cert

\* the institution of the entry is one of the claim's cases: an object,
\* null, or the key is missing
PlainInstitution(acct) == acct.institution.k \in {"object", "null", "absent"}

\* what the claim expects in the output: the name of the object, else null
ExpectedInstitution(acct) ==
    IF acct.institution.k = "object" /\ acct.institution.name.k = "str"
    THEN acct.institution.name
    ELSE None

\* C13: for an entry whose institution is an object with a name the output
\* account's institution is that name, for an entry whose institution is null
\* or missing it is null, and the extraction raises in neither case: once the
\* entry's two calls have delivered usable bodies its result is in place.
C13_InstitutionExtracted ==
    \A r \in Reqs :
        /\ \A p \in DOMAIN accounts[r] :
              PlainInstitution(accounts[r][p]) => ~InstitutionRaises(accounts[r][p])
        /\ \A i \in DOMAIN calls[r] :
              LET c == calls[r][i]
              IN  (/\ ParsedTransactions(c)
                   /\ PlainInstitution(accounts[r][c.pos])
                   /\ calls[r][i - 1].bodyKind \in {"object", "null"}) =>
                      /\ idx[r] > c.pos
                      /\ Len(results[r]) >= ResultIndex(r, c.pos)
                      /\ results[r][ResultIndex(r, c.pos)].account.id = c.id
                      /\ results[r][ResultIndex(r, c.pos)].account.institution
                            = ExpectedInstitution(accounts[r][c.pos])

C13_Witness ==
    \E r \in Reqs :
        /\ response[r].kind = "ok"
        /\ Len(response[r].accounts) = 2
        /\ accounts[r][1].institution.k = "absent"
        /\ response[r].accounts[1].account.institution = None
        /\ accounts[r][2].institution.k = "object"
        /\ response[r].accounts[2].account.institution = Str("Chase")

\* a call that failed below HTTP (transport exception) or whose 2xx body is
\* not JSON
NetworkFailure(c) == c.kind = "neterr"
ParsingFailure(c) == c.kind = "http" /\ is_success(c.status) /\ c.bodyKind = "invalid"

\* C14: a transport exception or an unparsable 2xx body on any upstream call
\* ends the request at that call, and the caller receives status 500 whose
\* detail is the message of the failure; the response is never a success.
C14_OtherFailureIs500 ==
    \A r \in Reqs :
        \A i \in DOMAIN calls[r] :
            LET c == calls[r][i]
            IN  (NetworkFailure(c) \/ ParsingFailure(c)) =>
                    /\ i = Len(calls[r])
                    /\ pc[r] \in {"finalize", "done"}
                    /\ pc[r] = "done" =>
                          /\ response[r].kind = "error"
                          /\ response[r].status = 500
                          /\ response[r].detail = (IF NetworkFailure(c) THEN c.text ELSE MsgBadJson)

C14_Witness ==
    \E r \in Reqs :
        /\ pc[r] = "done"
        /\ Len(calls[r]) = 3
        /\ calls[r][2].bodyKind = "object"
        /\ calls[r][3].op = "transactions"
        /\ ParsingFailure(calls[r][3])
        /\ Len(results[r]) = 0
        /\ response[r].status = 500
        /\ response[r].detail = MsgBadJson

\* requests r and q carry the same token and the same count
SameRequest(r, q) ==
    /\ pc[r] # "idle" /\ pc[q] # "idle"
    /\ payload[r].accessToken = payload[q].accessToken
    /\ payload[r].count = payload[q].count

\* C15: two requests with the same token and count, served by an upstream that
\* answers the same call the same way, issue the same calls in the same order
\* (as far as both have come) and, once both are answered, have the same kind
\* of response with the same status and the same accounts payload.
C15_SameRequestSameOutcome ==
    \A r, q \in Reqs :
        SameRequest(r, q) =>
            /\ \A i \in DOMAIN calls[r] \cap DOMAIN calls[q] : calls[r][i] = calls[q][i]
            /\ (pc[r] = "done" /\ pc[q] = "done") =>
                  /\ Len(calls[r]) = Len(calls[q])
                  /\ response[r].kind = response[q].kind
                  /\ response[r].status = response[q].status
                  /\ response[r].accounts = response[q].accounts

C15_Witness ==
    /\ SameRequest("r1", "r2")
    /\ response["r1"].kind = "ok"
    /\ response["r2"].kind = "ok"
    /\ Len(calls["r2"]) = 5
    /\ Len(response["r2"].accounts) = 2
    /\ response["r1"].accounts = response["r2"].accounts

\* the positions of the identified entries of a listing, in listing order
IdentifiedPositions(listing) ==
    SelectSeq([i \in 1..Len(listing) |-> i], LAMBDA i : Identified(listing[i]))

\* C16: the first call of a request is the account listing and no later one
\* is; after it the calls come in pairs, balances then transactions of the
\* same account, the j-th pair belonging to the j-th identified entry of the
\* listing; every call but the last has completed successfully before the
\* next was issued.
C16_CallsInFixedOrder ==
    \A r \in Reqs :
        LET log == calls[r]
            at == IdentifiedPositions(accounts[r])
        IN  /\ Len(log) <= 1 + 2 * Len(at)
            /\ \A i \in DOMAIN log :
                  /\ i < Len(log) => ~CallFailed(log[i])
                  /\ i = 1 => log[i].op = "accounts"
                  /\ (i > 1 /\ i % 2 = 0) =>
                        /\ log[i].op = "balances"
                        /\ log[i].pos = at[i \div 2]
                        /\ log[i].id = accounts[r][log[i].pos].id.v
                  /\ (i > 1 /\ i % 2 = 1) =>
                        /\ log[i].op = "transactions"
                        /\ log[i].pos = log[i - 1].pos
                        /\ log[i].id = log[i - 1].id

C16_Witness ==
    \E r \in Reqs :
        /\ response[r].kind = "ok"
        /\ Len(calls[r]) = 5
        /\ calls[r][2].op = "balances" /\ calls[r][2].id = "a2"
        /\ calls[r][3].op = "transactions" /\ calls[r][3].id = "a2"
        /\ calls[r][4].op = "balances" /\ calls[r][4].id = "a1"
        /\ calls[r][5].op = "transactions" /\ calls[r][5].id = "a1"

\* the logical state a position of the handler belongs to: 0 not started,
\* 1 Validating input, 2 Aggregating, 3 Finalizing, 4 responded
Phase(p) ==
    CASE p = "idle" -> 0
      [] p = "validate" -> 1
      [] p \in {"make_client", "list", "loop", "balance", "transactions"} -> 2
      [] p = "finalize" -> 3
      [] p = "done" -> 4

\* C17: every step keeps a request in its logical state or moves it forward:
\* from Validating to Aggregating or, on a validation failure, straight to the
\* response; from Aggregating only to Finalizing; from Finalizing to the
\* response. Nothing goes back, a request without token never aggregates, and
\* a response appears only on leaving Validating (rejection) or Finalizing.
C17_LinearPhases ==
    [][\A r \in Reqs :
          /\ Phase(pc'[r]) >= Phase(pc[r])
          /\ Phase(pc[r]) = 0 => Phase(pc'[r]) \in {0, 1}
          /\ Phase(pc[r]) = 1 => Phase(pc'[r]) \in {1, 2, 4}
          /\ (Phase(pc[r]) = 1 /\ MissingToken(payload[r])) => Phase(pc'[r]) \in {1, 4}
          /\ Phase(pc[r]) = 2 => Phase(pc'[r]) \in {2, 3}
          /\ Phase(pc[r]) = 3 => Phase(pc'[r]) \in {3, 4}
          /\ response'[r] # response[r] =>
                /\ response[r] = NoResponse
                /\ Phase(pc'[r]) = 4
                /\ Phase(pc[r]) = 3 \/ (Phase(pc[r]) = 1 /\ MissingToken(payload[r]))
    ]_vars

C17_Witness ==
    \E r \in Reqs :
        /\ Phase(pc[r]) = 4
        /\ response[r].kind = "ok"
        /\ client[r].state = "closed"
        /\ Len(results[r]) = 2
        /\ idx[r] = 3

\* number of calls of request r with the given endpoint and listing position
CallCount(r, op, p) ==
    Cardinality({ i \in DOMAIN calls[r] : calls[r][i].op = op /\ calls[r][i].pos = p })

\* a successful request: one listing call, one balances and one transactions
\* call per identified entry, none for any other entry, nothing twice
CallsOfSuccess(r) ==
    LET k == Len(IdentifiedPositions(accounts[r]))
    IN  /\ Len(calls[r]) = 1 + 2 * k
        /\ CallCount(r, "accounts", 0) = 1
        /\ \A p \in DOMAIN accounts[r] :
              /\ CallCount(r, "balances", p) = (IF Identified(accounts[r][p]) THEN 1 ELSE 0)
              /\ CallCount(r, "transactions", p) = (IF Identified(accounts[r][p]) THEN 1 ELSE 0)
        /\ accounts[r] = NoEntries => (Len(calls[r]) = 1 /\ response[r].accounts = <<>>)

\* the request got past validation and client construction and failed
FailedAggregation(r) ==
    pc[r] = "done" /\ response[r].kind = "error" /\ client[r].state = "closed"

\* a call the request cannot go on from: it failed, or it is the listing call
\* and its body is no sequence
FailingCall(c) == CallFailed(c) \/ (c.op = "accounts" /\ c.bodyKind # "list")

\* C18 as stated: a successful request issues exactly its 1 + 2k calls; a
\* failed request issues at most that many and its last call is the failing
\* one (here only for listings made of objects).
C18_FailedEndsWithFailingCall ==
    \A r \in Reqs :
        /\ response[r].kind = "ok" => CallsOfSuccess(r)
        /\ (FailedAggregation(r) /\ \A p \in DOMAIN accounts[r] : accounts[r][p].shape = "object") =>
              /\ Len(calls[r]) <= 1 + 2 * Len(IdentifiedPositions(accounts[r]))
              /\ Len(calls[r]) >= 1
              /\ FailingCall(Last(calls[r]))

\* C18 (amended): every call is attempted once; a successful request issues
\* exactly its 1 + 2k calls; a failed request issues at least the listing
\* call and at most 1 + 2k calls, no call twice, and none after a failed
\* call.
C18_NoRetriesNoExtraCalls ==
    \A r \in Reqs :
        /\ \A i, j \in DOMAIN calls[r] :
              (calls[r][i].op = calls[r][j].op /\ calls[r][i].pos = calls[r][j].pos) => i = j
        /\ response[r].kind = "ok" => CallsOfSuccess(r)
        /\ FailedAggregation(r) =>
              /\ Len(calls[r]) <= 1 + 2 * Len(IdentifiedPositions(accounts[r]))
              /\ Len(calls[r]) >= 1
              /\ \A i \in DOMAIN calls[r] : CallFailed(calls[r][i]) => i = Len(calls[r])
              /\ \A i \in DOMAIN calls[r] :
                    calls[r][i].op # "accounts" => Identified(accounts[r][calls[r][i].pos])

C18_Witness ==
    \E r \in Reqs :
        /\ FailedAggregation(r)
        /\ Len(accounts[r]) = 2
        /\ Identified(accounts[r][1]) /\ Identified(accounts[r][2])
        /\ Len(calls[r]) = 3
        /\ calls[r][2].bodyKind = "list"
        /\ ~CallFailed(calls[r][3])

\* everything request q holds
Local(q) ==
    <<pc[q], payload[q], access_token[q], max_count[q], client[q], accounts[q],
      idx[q], balance[q], results[q], pending[q], response[q], calls[q]>>

\* the results request r has when it runs alone and the upstream gives it the
\* answers of its own call log: one per completed pair of calls
ResultsAlone(r) ==
    LET at == IdentifiedPositions(accounts[r])
        n == Cardinality({ i \in DOMAIN calls[r] :
                             calls[r][i].op = "transactions" /\ ~CallFailed(calls[r][i]) })
    IN  [j \in 1..n |->
            AccountResult(accounts[r][at[j]], calls[r][2 * j].body, calls[r][2 * j + 1].body)]

\* the response it has then: the results, or the error of its own last call
ResponseAlone(r) ==
    IF Non2xx(Last(calls[r]))
    THEN ErrorResponse(Last(calls[r]).status,
                       TellerErrorDetail(Last(calls[r]).status, Last(calls[r]).text))
    ELSE [kind |-> "ok", status |-> 200, detail |-> <<>>, accounts |-> ResultsAlone(r)]

\* C19: with two requests in flight at once, a step of one request touches
\* nothing the other holds and nothing of the configuration; each request's
\* client and calls carry its own token; and its results and its response are
\* those it has alone with the answers its own calls received.
C19_RequestsIndependent ==
    /\ [][/\ config' = config
          /\ \E r \in Reqs : \A q \in Reqs \ {r} : Local(q)' = Local(q)]_vars
    /\ [](\A r \in Reqs :
            /\ client[r].state # "none" => client[r].auth = payload[r].accessToken.v
            /\ \A i \in DOMAIN calls[r] : calls[r][i].auth = payload[r].accessToken.v
            /\ calls[r] # NoCalls =>
                  /\ results[r] = ResultsAlone(r)
                  /\ pc[r] = "done" => response[r] = ResponseAlone(r))

C19_Witness ==
    /\ pc["r1"] = "transactions"
    /\ Len(results["r1"]) = 1
    /\ pc["r2"] = "balance"
    /\ idx["r2"] = 2
    /\ Len(results["r2"]) = 0
    /\ calls["r1"][1].body # calls["r2"][1].body
    /\ client["r1"].state = "open" /\ client["r2"].state = "open"
    /\ client["r1"].auth # client["r2"].auth

\* C20: under the progress assumption every request that arrived is
\* eventually answered; it has a response exactly when it is done, and from
\* then on its response stays as it is and its call log does not grow.
C20_TerminatesWithOneResponse ==
    /\ \A r \in Reqs : (pc[r] # "idle") ~> (pc[r] = "done" /\ response[r] # NoResponse)
    /\ [](\A r \in Reqs : response[r] # NoResponse <=> pc[r] = "done")
    /\ [][\A r \in Reqs :
            pc[r] = "done" =>
                (pc'[r] = "done" /\ response'[r] = response[r] /\ calls'[r] = calls[r])]_vars

C20_Witness ==
    \E r \in Reqs :
        /\ pc[r] = "done"
        /\ response[r].kind = "ok"
        /\ Len(accounts[r]) = MaxAccounts
        /\ Len(calls[r]) = 1 + 2 * MaxAccounts
        /\ client[r].state = "closed"

====
